---- MODULE Spec2Model ----
(***************************************************************************)
(* The prefer-early-return lint rule (src/src/prefer-early-return.ts).     *)
(*                                                                         *)
(* A source text is the sequence of its lexical tokens.  White space is    *)
(* kept as a token of its own (" ", "\t", "\n") where the rule reads it:   *)
(* line breaks and the leading white space of a line.  The host parses the *)
(* text into an ESTree: every node carries its type, its start and end     *)
(* offsets into the text, its expression and its child statements.  A node *)
(* is addressed by its path from the Program node, so that node.parent is  *)
(* the node at the path without its last step.                             *)
(***************************************************************************)
EXTENDS Integers, Sequences, FiniteSets, TLC

VARIABLES
    src,        \* the source text being linted (sourceCode.getText())
    ast,        \* its syntax tree (the Program node)
    todo,       \* the IfStatement nodes the walk has not visited yet
    visited,    \* what the IfStatement handler decided: path -> verdict
    reports,    \* the diagnostics of this walk, in the order reported
    fix,        \* the fix applied: the node replaced, the text before, the new text
    pass,       \* 1: the walk of the given text; 2: the walk after the fix
    cond,       \* a condition handed to invertCondition, as a text of its own
    inverted    \* the texts invertCondition returned for it, one after the other

vars == <<src, ast, todo, visited, reports, fix, pass, cond, inverted>>

(***************************************************************************)
(* Tokens                                                                  *)
(***************************************************************************)
WhiteSpace == {" ", "\t", "\n"}

Keywords == {"if", "else", "return", "throw", "function", "for", "let",
             "const", "class", "try", "catch"}

EqualityOps == {"===", "!==", "==", "!="}

RelationalOps == {"<", "<=", ">", ">=", "instanceof"}

LogicalOps == {"&&", "||"}

Punctuators == {"(", ")", "{", "}", ";", "!", "=", "=>", ".", "<eof>"}
                 \cup EqualityOps \cup RelationalOps \cup LogicalOps

Reserved == WhiteSpace \cup Keywords \cup Punctuators

IsName(tok) == tok \notin Reserved

IsNumber(tok) == tok \in {"0", "1", "2", "3"}

Tok(t, i) == IF i >= 1 /\ i <= Len(t) THEN t[i] ELSE "<eof>"

RECURSIVE SkipWs(_, _)
SkipWs(t, i) == IF Tok(t, i) \in WhiteSpace THEN SkipWs(t, i + 1) ELSE i

(***************************************************************************)
(* Nodes.  Statements and expressions have one record shape each.          *)
(***************************************************************************)
NoExpr == [type |-> "null", start |-> 0, end |-> 0, operator |-> "", args |-> <<>>]

Null == [type |-> "null", start |-> 0, end |-> 0, expr |-> NoExpr, kids |-> <<>>]

ExprNode(type, s, e, op, args) ==
    [type |-> type, start |-> s, end |-> e, operator |-> op, args |-> args]

StmtNode(type, s, e, expr, kids) ==
    [type |-> type, start |-> s, end |-> e, expr |-> expr, kids |-> kids]

(***************************************************************************)
(* The host's parser, for the statements and expressions the model's       *)
(* programs are written in.  A parse returns the node and the index of the *)
(* first token after it.  Parentheses are no node: as in ESTree, the node  *)
(* of a parenthesised expression is the node of the expression inside and  *)
(* its range leaves the parentheses out.                                   *)
(***************************************************************************)
RECURSIVE ParseExpression(_, _)
RECURSIVE ParseUnary(_, _)

ParsePrimary(t, i) ==
    LET Parenthesised(inner) ==
            [node |-> inner.node,
             next |-> IF Tok(t, inner.next) = ")" THEN inner.next + 1 ELSE inner.next]
    IN  IF Tok(t, i) = "("
        THEN Parenthesised(ParseExpression(t, i + 1))
        ELSE IF IsName(Tok(t, i)) /\ Tok(t, i + 1) = "(" /\ Tok(t, i + 2) = ")"
        THEN [node |-> ExprNode("CallExpression", i - 1, i + 2, "",
                           <<ExprNode("Identifier", i - 1, i, "", <<>>)>>),
              next |-> i + 3]
        ELSE IF IsName(Tok(t, i)) /\ Tok(t, i + 1) = "." /\ IsName(Tok(t, i + 2))
        THEN [node |-> ExprNode("MemberExpression", i - 1, i + 2, "",
                           <<ExprNode("Identifier", i - 1, i, "", <<>>),
                             ExprNode("Identifier", i + 1, i + 2, "", <<>>)>>),
              next |-> i + 3]
        ELSE IF IsNumber(Tok(t, i))
        THEN [node |-> ExprNode("Literal", i - 1, i, "", <<>>), next |-> i + 1]
        ELSE IF IsName(Tok(t, i))
        THEN [node |-> ExprNode("Identifier", i - 1, i, "", <<>>), next |-> i + 1]
        ELSE [node |-> ExprNode("Error", i - 1, i, "", <<>>), next |-> i + 1]

ParseUnary(t, i) ==
    LET Not(arg) ==
            [node |-> ExprNode("UnaryExpression", i - 1, arg.next - 1, "!", <<arg.node>>),
             next |-> arg.next]
    IN  IF Tok(t, i) = "!" THEN Not(ParseUnary(t, i + 1)) ELSE ParsePrimary(t, i)

\* A binary node over the operand already parsed at i and the operand parsed
\* after the operator, when the token between them is one of ops.
ParseBinary(t, i, ops, type, left, right) ==
    IF Tok(t, left.next) \in ops
    THEN [node |-> ExprNode(type, i - 1, right.next - 1,
                       Tok(t, left.next), <<left.node, right.node>>),
          next |-> right.next]
    ELSE left

ParseRelational(t, i) ==
    LET After(left) == ParseBinary(t, i, RelationalOps, "BinaryExpression",
                                   left, ParseUnary(t, left.next + 1))
    IN  After(ParseUnary(t, i))

ParseEquality(t, i) ==
    LET After(left) == ParseBinary(t, i, EqualityOps, "BinaryExpression",
                                   left, ParseRelational(t, left.next + 1))
    IN  After(ParseRelational(t, i))

ParseExpression(t, i) ==
    LET After(left) == ParseBinary(t, i, LogicalOps, "LogicalExpression",
                                   left, ParseEquality(t, left.next + 1))
    IN  After(ParseEquality(t, i))

RECURSIVE ParseStatement(_, _)
RECURSIVE ParseList(_, _)

\* The statements up to the closing brace or the end of the text.
ParseList(t, i) ==
    LET Cons(s, rest) == [nodes |-> <<s.node>> \o rest.nodes, next |-> rest.next]
        After(s) == Cons(s, ParseList(t, s.next))
        From(j) == IF Tok(t, j) \in {"}", "<eof>"}
                   THEN [nodes |-> <<>>, next |-> j]
                   ELSE After(ParseStatement(t, j))
    IN  From(SkipWs(t, i))

\* { statements }, with i at the opening brace.
ParseBlock(t, i) ==
    LET Block(body) ==
            [node |-> StmtNode("BlockStatement", i - 1, body.next, NoExpr, body.nodes),
             next |-> body.next + 1]
    IN  Block(ParseList(t, i + 1))

\* if ( test ) statement     if ( test ) statement else statement
ParseIf(t, i) ==
    LET WithElse(test, cons, alt) ==
            [node |-> StmtNode("IfStatement", i - 1, alt.node.end, test.node,
                          <<cons.node, alt.node>>),
             next |-> alt.next]
        Else(test, cons, j) ==
            IF Tok(t, j) = "else"
            THEN WithElse(test, cons, ParseStatement(t, j + 1))
            ELSE [node |-> StmtNode("IfStatement", i - 1, cons.node.end, test.node,
                               <<cons.node>>),
                  next |-> cons.next]
        Then(test, cons) == Else(test, cons, SkipWs(t, cons.next))
        If(test) == Then(test, ParseStatement(t, test.next + 1))
    IN  If(ParseExpression(t, i + 2))

\* function f ( ) { ... }
ParseFunctionDeclaration(t, i) ==
    LET Function(body) ==
            [node |-> StmtNode("FunctionDeclaration", i - 1, body.node.end, NoExpr,
                          <<body.node>>),
             next |-> body.next]
    IN  Function(ParseBlock(t, i + 4))

\* const f = ( ) => { ... } ;     const f = function ( ) { ... } ;
ParseConst(t, i) ==
    LET Declarator(fn) == StmtNode("VariableDeclarator", i, fn.end, NoExpr, <<fn>>)
        Const(body) ==
            [node |-> StmtNode("VariableDeclaration", i - 1, body.next, NoExpr,
                          <<Declarator(StmtNode(IF Tok(t, i + 3) = "("
                                                THEN "ArrowFunctionExpression"
                                                ELSE "FunctionExpression",
                                                i + 2, body.node.end, NoExpr,
                                                <<body.node>>))>>),
             next |-> body.next + 1]
    IN  Const(ParseBlock(t, i + 6))

\* class C { m ( ) { ... } }
ParseClass(t, i) ==
    LET Method(fn) == StmtNode("MethodDefinition", i + 2, fn.end, NoExpr, <<fn>>)
        Class(body, close) ==
            [node |-> StmtNode("ClassDeclaration", i - 1, close, NoExpr,
                          <<StmtNode("ClassBody", i + 1, close, NoExpr,
                                <<Method(StmtNode("FunctionExpression", i + 3,
                                             body.node.end, NoExpr, <<body.node>>))>>)>>),
             next |-> close + 1]
        Close(body) == Class(body, SkipWs(t, body.next))
    IN  Close(ParseBlock(t, i + 6))

\* for ( ; ; ) statement
ParseFor(t, i) ==
    LET For(body) ==
            [node |-> StmtNode("ForStatement", i - 1, body.node.end, NoExpr, <<body.node>>),
             next |-> body.next]
    IN  For(ParseStatement(t, i + 5))

\* try { ... } catch { ... }
ParseTry(t, i) ==
    LET Try(block, handler) ==
            [node |-> StmtNode("TryStatement", i - 1, handler.node.end, NoExpr,
                          <<block.node,
                            StmtNode("CatchClause", block.next - 1, handler.node.end,
                                NoExpr, <<handler.node>>)>>),
             next |-> handler.next]
        Catch(block) == Try(block, ParseBlock(t, block.next + 1))
    IN  Catch(ParseBlock(t, i + 1))

\* return ;   return e ;   throw e ;   e ;
ParseSimple(t, i) ==
    LET type == IF Tok(t, i) = "return" THEN "ReturnStatement"
                ELSE IF Tok(t, i) = "throw" THEN "ThrowStatement"
                ELSE "ExpressionStatement"
        Ended(e, semi) ==
            [node |-> StmtNode(type, i - 1, IF semi THEN e.next ELSE e.next - 1,
                          e.node, <<>>),
             next |-> IF semi THEN e.next + 1 ELSE e.next]
        Of(e) == Ended(e, Tok(t, e.next) = ";")
    IN  IF Tok(t, i) = "return" /\ Tok(t, i + 1) = ";"
        THEN [node |-> StmtNode("ReturnStatement", i - 1, i + 1, NoExpr, <<>>),
              next |-> i + 2]
        ELSE Of(ParseExpression(t, IF Tok(t, i) \in {"return", "throw"}
                                   THEN i + 1 ELSE i))

ParseStatement(t, i0) ==
    LET At(i, kw) ==
            CASE kw = "{"        -> ParseBlock(t, i)
              [] kw = "if"       -> ParseIf(t, i)
              [] kw = "function" -> ParseFunctionDeclaration(t, i)
              [] kw = "const"    -> ParseConst(t, i)
              [] kw = "class"    -> ParseClass(t, i)
              [] kw = "for"      -> ParseFor(t, i)
              [] kw = "try"      -> ParseTry(t, i)
              [] kw = "let"      -> [node |-> StmtNode("VariableDeclaration", i - 1, i + 2,
                                                  NoExpr, <<>>),
                                     next |-> i + 3]
              [] OTHER           -> ParseSimple(t, i)
        Skip(i) == At(i, Tok(t, i))
    IN  Skip(SkipWs(t, i0))

Parse(t) == StmtNode("Program", 0, Len(t), NoExpr, ParseList(t, 1).nodes)

(***************************************************************************)
(* Reading the tree                                                        *)
(***************************************************************************)
RECURSIVE NodeAt(_, _)
NodeAt(n, p) == IF p = <<>> THEN n ELSE NodeAt(n.kids[Head(p)], Tail(p))

Front(p) == SubSeq(p, 1, Len(p) - 1)

\* node.parent, for the node at path p (p is not the Program's path).
ParentOf(tree, p) == NodeAt(tree, Front(p))


\* The statements of the tree under n, n first, in the order of the text.
RECURSIVE NodesUnder(_)
RECURSIVE NodesUnderKids(_, _)
NodesUnderKids(n, i) ==
    IF i > Len(n.kids) THEN <<>>
    ELSE NodesUnder(n.kids[i]) \o NodesUnderKids(n, i + 1)

NodesUnder(n) == <<n>> \o NodesUnderKids(n, 1)

\* node.consequent and node.alternate of an IfStatement.
Consequent(node) == node.kids[1]

Alternate(node) == IF Len(node.kids) >= 2 THEN node.kids[2] ELSE Null

\* Array.prototype.indexOf: the first index (from 0) holding x, or -1.
IndexOf(body, x) ==
    IF \E i \in 1..Len(body) : body[i] = x
    THEN (CHOOSE i \in 1..Len(body) :
              body[i] = x /\ \A j \in 1..(i - 1) : body[j] # x) - 1
    ELSE -1

\* sourceCode.getText(node): the text from the node's start to its end.
getText(text, node) == SubSeq(text, node.start + 1, node.end)

\* The paths of the IfStatement nodes under n, in the order of the walk.
RECURSIVE IfPaths(_, _)
RECURSIVE IfPathsOfKids(_, _, _)
IfPathsOfKids(n, p, i) ==
    IF i > Len(n.kids) THEN <<>>
    ELSE IfPaths(n.kids[i], Append(p, i)) \o IfPathsOfKids(n, p, i + 1)

IfPaths(n, p) ==
    (IF n.type = "IfStatement" THEN <<p>> ELSE <<>>) \o IfPathsOfKids(n, p, 1)

(***************************************************************************)
(* The Detector                                                            *)
(***************************************************************************)
getBlockStatements(statement) ==
    IF statement.type = "BlockStatement" THEN statement.kids ELSE <<statement>>

\* String.prototype.includes('Function'), over the node types of the model.
IncludesFunction(type) ==
    type \in {"FunctionDeclaration", "FunctionExpression", "ArrowFunctionExpression"}

isFunctionNode(node) ==
    \/ node.type = "FunctionDeclaration"
    \/ node.type = "FunctionExpression"
    \/ node.type = "ArrowFunctionExpression"
    \/ IncludesFunction(node.type)


\* A variant of isDirectlyInFunctionBody that takes any block for a function's body.
isDirectlyInFunctionBody_AnyBlock(tree, p) ==
    ParentOf(tree, p).type = "BlockStatement"

isDirectlyInFunctionBody(tree, p) ==
    LET parent == ParentOf(tree, p)
    IN  IF parent.type # "BlockStatement" THEN FALSE
        ELSE LET grandParent == ParentOf(tree, Front(p))
             IN  isFunctionNode(grandParent) \/ grandParent.type = "MethodDefinition"


\* Variants of hasNestedIfInConsequent: a search of the whole consequent, and
\* a test for any statement at all.
hasNestedIfInConsequent_Deep(node) ==
    \E i \in 1..Len(NodesUnder(Consequent(node))) :
        NodesUnder(Consequent(node))[i].type = "IfStatement"

hasNestedIfInConsequent_AnyStatement(node) ==
    Len(getBlockStatements(Consequent(node))) > 0

hasNestedIfInConsequent(node) ==
    LET consequentStatements == getBlockStatements(Consequent(node))
    IN  \E i \in 1..Len(consequentStatements) :
            consequentStatements[i].type = "IfStatement"


\* A variant of isSimpleExit that looks at the first statement of any block.
RECURSIVE isSimpleExit_FirstOfBlock(_)
isSimpleExit_FirstOfBlock(statement) ==
    IF statement = Null THEN FALSE
    ELSE IF statement.type \in {"ReturnStatement", "ThrowStatement", "ExpressionStatement"}
    THEN TRUE
    ELSE IF statement.type = "BlockStatement" /\ Len(statement.kids) >= 1
    THEN isSimpleExit_FirstOfBlock(statement.kids[1])
    ELSE FALSE

RECURSIVE isSimpleExit(_)
isSimpleExit(statement) ==
    IF statement = Null THEN FALSE
    ELSE IF statement.type \in {"ReturnStatement", "ThrowStatement", "ExpressionStatement"}
    THEN TRUE
    ELSE IF statement.type = "BlockStatement" /\ Len(statement.kids) = 1
    THEN isSimpleExit(statement.kids[1])
    ELSE FALSE


\* A variant of isLastStatementInBlock that only asks that the node be found.
isLastStatementInBlock_Found(tree, p) ==
    LET parent == ParentOf(tree, p)
    IN  IF parent.type # "BlockStatement" THEN FALSE
        ELSE IndexOf(parent.kids, NodeAt(tree, p)) >= 0

isLastStatementInBlock(tree, p) ==
    LET parent == ParentOf(tree, p)
    IN  IF parent.type # "BlockStatement" THEN FALSE
        ELSE LET body == parent.kids
                 nodeIndex == IndexOf(body, NodeAt(tree, p))
             IN  nodeIndex = Len(body) - 1

\* A statement that is an IfStatement with an else that is a simple exit.
IsIfWithExitElse(s) ==
    s.type = "IfStatement" /\ Alternate(s) # Null /\ isSimpleExit(Alternate(s))


\* A variant of shouldReportEarlyReturn whose second pattern takes any nested
\* conditional with an else.
shouldReportEarlyReturn_AnyElse(tree, p) ==
    LET node == NodeAt(tree, p)
    IN  IF ~isDirectlyInFunctionBody(tree, p) THEN FALSE
        ELSE IF ~isLastStatementInBlock(tree, p) THEN FALSE
        ELSE IF Alternate(node) # Null
        THEN isSimpleExit(Alternate(node)) /\ hasNestedIfInConsequent(node)
        ELSE LET consequentStatements == getBlockStatements(Consequent(node))
             IN  \E i \in 1..Len(consequentStatements) :
                     /\ consequentStatements[i].type = "IfStatement"
                     /\ Alternate(consequentStatements[i]) # Null

shouldReportEarlyReturn(tree, p) ==
    LET node == NodeAt(tree, p)
    IN  IF ~isDirectlyInFunctionBody(tree, p) THEN FALSE
        ELSE IF ~isLastStatementInBlock(tree, p) THEN FALSE
        ELSE IF Alternate(node) # Null
        THEN isSimpleExit(Alternate(node)) /\ hasNestedIfInConsequent(node)
        ELSE LET consequentStatements == getBlockStatements(Consequent(node))
             IN  \E i \in 1..Len(consequentStatements) :
                     IsIfWithExitElse(consequentStatements[i])

(***************************************************************************)
(* The Rewriter                                                            *)
(***************************************************************************)
RECURSIVE getSimpleExitStatement(_)
getSimpleExitStatement(statement) ==
    IF statement.type = "BlockStatement" /\ Len(statement.kids) = 1
    THEN getSimpleExitStatement(statement.kids[1])
    ELSE statement

SimpleOperand(type) == type \in {"Identifier", "MemberExpression", "CallExpression"}

\* The switch over the operator of a BinaryExpression: the operator of the
\* inverted comparison, or "" when no case matches.
InverseOperator(op) ==
    CASE op = "===" -> "!=="
      [] op = "!==" -> "==="
      [] op = "=="  -> "!="
      [] op = "!="  -> "=="
      [] op = "<"   -> ">="
      [] op = "<="  -> ">"
      [] op = ">"   -> "<="
      [] op = ">="  -> "<"
      [] OTHER      -> ""

invertCondition(condition, text) ==
    LET conditionText == getText(text, condition)
    IN  IF condition.type = "UnaryExpression" /\ condition.operator = "!"
        THEN LET argument == condition.args[1]
             IN  IF SimpleOperand(argument.type)
                 THEN getText(text, argument)
                 ELSE <<"(">> \o getText(text, argument) \o <<")">>
        ELSE IF condition.type = "BinaryExpression"
                /\ InverseOperator(condition.operator) # ""
        THEN getText(text, condition.args[1])
                 \o <<InverseOperator(condition.operator)>>
                 \o getText(text, condition.args[2])
        ELSE IF SimpleOperand(condition.type)
        THEN <<"!">> \o conditionText
        ELSE <<"!", "(">> \o conditionText \o <<")">>


\* A variant of convertToEarlyReturn that copies an expression statement as it is.
convertToEarlyReturn_Verbatim(statement, text) ==
    getText(text, getSimpleExitStatement(statement))

convertToEarlyReturn(statement, text) ==
    LET exitStmt == getSimpleExitStatement(statement)
    IN  IF exitStmt.type \in {"ReturnStatement", "ThrowStatement"}
        THEN getText(text, exitStmt)
        ELSE IF exitStmt.type = "ExpressionStatement"
        THEN <<"return">> \o getText(text, exitStmt.expr) \o <<";">>
        ELSE getText(text, exitStmt)

\* The start of the line of offset start: after the last "\n" before it.
RECURSIVE LineStart(_, _)
LineStart(text, start) ==
    IF start > 0 /\ text[start] # "\n" THEN LineStart(text, start - 1) ELSE start

\* The spaces and tabs from offset i on, up to offset start or the first other token.
RECURSIVE LeadingBlank(_, _, _)
LeadingBlank(text, i, start) ==
    IF i < start /\ text[i + 1] \in {" ", "\t"}
    THEN <<text[i + 1]>> \o LeadingBlank(text, i + 1, start)
    ELSE <<>>

\* A variant that reads the blanks at the start of the text, not of the line.
getIndentation_OfText(node, text) == LeadingBlank(text, 0, node.start)

getIndentation(node, text) == LeadingBlank(text, LineStart(text, node.start), node.start)

\* Array.prototype.join('\n')
RECURSIVE Join(_)
Join(parts) ==
    IF parts = <<>> THEN <<>>
    ELSE IF Len(parts) = 1 THEN parts[1]
    ELSE parts[1] \o <<"\n">> \o Join(Tail(parts))

RECURSIVE flattenIfElseChain(_, _, _)

\* Array.prototype.some over the statements of an if's consequent.
hasNestedIfElse(stmt) ==
    LET nestedStmts == getBlockStatements(Consequent(stmt))
    IN  \E i \in 1..Len(nestedStmts) : IsIfWithExitElse(nestedStmts[i])


\* A variant of FlattenStatementAfterExit that re-emits every statement as it is.
FlattenStatementAfterExit_Verbatim(stmt, text, baseIndent) ==
    baseIndent \o getText(text, stmt)

\* One statement of the consequent when the cursor's else is a simple exit.
FlattenStatementAfterExit(stmt, text, baseIndent) ==
    IF IsIfWithExitElse(stmt)
    THEN flattenIfElseChain(stmt, text, baseIndent)
    ELSE IF stmt.type = "IfStatement" /\ Alternate(stmt) = Null
    THEN IF hasNestedIfElse(stmt)
         THEN flattenIfElseChain(stmt, text, baseIndent)
         ELSE baseIndent \o getText(text, stmt)
    ELSE baseIndent \o getText(text, stmt)

\* One statement of the consequent when the cursor has no else.
FlattenStatementNoElse(stmt, text, baseIndent) ==
    IF IsIfWithExitElse(stmt)
    THEN flattenIfElseChain(stmt, text, baseIndent)
    ELSE IF stmt.type = "IfStatement"
    THEN IF hasNestedIfElse(stmt)
         THEN flattenIfElseChain(stmt, text, baseIndent)
         ELSE baseIndent \o getText(text, stmt)
    ELSE baseIndent \o getText(text, stmt)


\* A variant of flattenParts that pushes the guard after the consequent's parts.
flattenParts_GuardLast(current, text, baseIndent) ==
    LET consequentStmts == getBlockStatements(Consequent(current))
    IN  IF Alternate(current) # Null /\ isSimpleExit(Alternate(current))
        THEN [i \in 1..Len(consequentStmts) |->
                 FlattenStatementAfterExit(consequentStmts[i], text, baseIndent)]
             \o <<baseIndent \o <<"if", "(">> \o invertCondition(current.expr, text)
                      \o <<")">> \o convertToEarlyReturn(Alternate(current), text)>>
        ELSE IF Alternate(current) = Null
        THEN IF \E i \in 1..Len(consequentStmts) : IsIfWithExitElse(consequentStmts[i])
             THEN [i \in 1..Len(consequentStmts) |->
                      FlattenStatementNoElse(consequentStmts[i], text, baseIndent)]
                  \o <<baseIndent \o <<"if", "(">> \o invertCondition(current.expr, text)
                           \o <<")", "return", ";">> >>
             ELSE <<>>
        ELSE <<>>

\* The parts pushed by the one turn of the loop over the cursor.
flattenParts(current, text, baseIndent) ==
    LET consequentStmts == getBlockStatements(Consequent(current))
    IN  IF Alternate(current) # Null /\ isSimpleExit(Alternate(current))
        THEN <<baseIndent \o <<"if", "(">> \o invertCondition(current.expr, text)
                   \o <<")">> \o convertToEarlyReturn(Alternate(current), text)>>
             \o [i \in 1..Len(consequentStmts) |->
                    FlattenStatementAfterExit(consequentStmts[i], text, baseIndent)]
        ELSE IF Alternate(current) = Null
        THEN IF \E i \in 1..Len(consequentStmts) : IsIfWithExitElse(consequentStmts[i])
             THEN <<baseIndent \o <<"if", "(">> \o invertCondition(current.expr, text)
                        \o <<")", "return", ";">> >>
                  \o [i \in 1..Len(consequentStmts) |->
                         FlattenStatementNoElse(consequentStmts[i], text, baseIndent)]
             ELSE <<>>
        ELSE <<>>

flattenIfElseChain(node, text, baseIndent) == Join(flattenParts(node, text, baseIndent))

(***************************************************************************)
(* The Rewriter, step by step: the same loop, written down as the list of  *)
(* what it does.  An entry is a call of flattenIfElseChain (with the       *)
(* branch its cursor takes, the indent it was given and the conditional    *)
(* whose loop made the call) or a string pushed on parts: a guard clause,  *)
(* a statement re-emitted, or the empty string a call without parts        *)
(* returns to its caller.                                                  *)
(***************************************************************************)
\* The branch of the loop body the cursor takes.
\*   "1"   the else is a simple exit
\*   "2b"  no else, and the consequent holds an if with a simple exit for else
\*   "2c"  no else, and the consequent holds no such if
\*   "3"   an else that is no simple exit
flattenBranch(current) ==
    IF Alternate(current) # Null /\ isSimpleExit(Alternate(current)) THEN "1"
    ELSE IF Alternate(current) = Null
    THEN IF hasNestedIfElse(current) THEN "2b" ELSE "2c"
    ELSE "3"

\* A variant that moves the cursor on to an `else if`.
NextCursor_ElseIf(current) ==
    IF flattenBranch(current) = "3" /\ Alternate(current).type = "IfStatement"
    THEN Alternate(current)
    ELSE Null

\* The cursor after the loop body: every branch ends in `current = null`.
NextCursor(current) ==
    CASE flattenBranch(current) = "1"           -> Null
      [] flattenBranch(current) \in {"2b", "2c"} -> Null
      [] OTHER                                   -> Null

\* The turns of `while (current)` from a cursor on, counted up to a bound.
RECURSIVE LoopTurns(_, _)
LoopTurns(current, bound) ==
    IF current = Null \/ bound = 0 THEN 0
    ELSE 1 + LoopTurns(NextCursor(current), bound - 1)

Called(current, baseIndent, caller) ==
    [kind |-> "call", node |-> current, branch |-> flattenBranch(current),
     indent |-> baseIndent, text |-> <<>>, caller |-> caller]

Pushed(kind, stmt, baseIndent, caller, string) ==
    [kind |-> kind, node |-> stmt, branch |-> "", indent |-> baseIndent,
     text |-> string, caller |-> caller]

RECURSIVE flattenTrace(_, _, _, _)

\* One statement of the consequent when the cursor's else is a simple exit.
TraceStatementAfterExit(stmt, text, baseIndent, current) ==
    IF IsIfWithExitElse(stmt)
    THEN flattenTrace(stmt, text, baseIndent, current)
    ELSE IF stmt.type = "IfStatement" /\ Alternate(stmt) = Null
    THEN IF hasNestedIfElse(stmt)
         THEN flattenTrace(stmt, text, baseIndent, current)
         ELSE <<Pushed("statement", stmt, baseIndent, current,
                       baseIndent \o getText(text, stmt))>>
    ELSE <<Pushed("statement", stmt, baseIndent, current,
                  baseIndent \o getText(text, stmt))>>

\* A variant that calls the Rewriter on every if of the consequent.
TraceStatementNoElse_AnyIf(stmt, text, baseIndent, current) ==
    IF stmt.type = "IfStatement"
    THEN flattenTrace(stmt, text, baseIndent, current)
    ELSE <<Pushed("statement", stmt, baseIndent, current,
                  baseIndent \o getText(text, stmt))>>

\* One statement of the consequent when the cursor has no else.
TraceStatementNoElse(stmt, text, baseIndent, current) ==
    IF IsIfWithExitElse(stmt)
    THEN flattenTrace(stmt, text, baseIndent, current)
    ELSE IF stmt.type = "IfStatement"
    THEN IF hasNestedIfElse(stmt)
         THEN flattenTrace(stmt, text, baseIndent, current)
         ELSE <<Pushed("statement", stmt, baseIndent, current,
                       baseIndent \o getText(text, stmt))>>
    ELSE <<Pushed("statement", stmt, baseIndent, current,
                  baseIndent \o getText(text, stmt))>>

\* The loop over the statements of the consequent, from the i-th on.
RECURSIVE TraceStatements(_, _, _, _, _)
TraceStatements(current, i, text, baseIndent, afterExit) ==
    IF i > Len(getBlockStatements(Consequent(current))) THEN <<>>
    ELSE (IF afterExit
          THEN TraceStatementAfterExit(getBlockStatements(Consequent(current))[i],
                                       text, baseIndent, current)
          ELSE TraceStatementNoElse(getBlockStatements(Consequent(current))[i],
                                    text, baseIndent, current))
         \o TraceStatements(current, i + 1, text, baseIndent, afterExit)

flattenTrace(current, text, baseIndent, caller) ==
    <<Called(current, baseIndent, caller)>>
    \o (CASE flattenBranch(current) = "1" ->
                <<Pushed("guard", current, baseIndent, current,
                         baseIndent \o <<"if", "(">> \o invertCondition(current.expr, text)
                             \o <<")">> \o convertToEarlyReturn(Alternate(current), text))>>
                \o TraceStatements(current, 1, text, baseIndent, TRUE)
          [] flattenBranch(current) = "2b" ->
                <<Pushed("guard", current, baseIndent, current,
                         baseIndent \o <<"if", "(">> \o invertCondition(current.expr, text)
                             \o <<")", "return", ";">>)>>
                \o TraceStatements(current, 1, text, baseIndent, FALSE)
          [] OTHER ->
                <<Pushed("nothing", current, baseIndent, caller, <<>>)>>)

\* fixer.replaceText(node, fixedCode), applied to the text.
replaceText(text, node, fixedCode) ==
    SubSeq(text, 1, node.start) \o fixedCode \o SubSeq(text, node.end + 1, Len(text))

createFix(tree, p, text) ==
    LET node == NodeAt(tree, p)
        indent == getIndentation(node, text)
        fixedCode == flattenIfElseChain(node, text, indent)
    IN  fixedCode

(***************************************************************************)
(* The programs the rule is run on: one conditional, written in every way  *)
(* the bounds allow, at every place a statement can stand.                 *)
(***************************************************************************)
MaxLen == 2        \* the statements of a braced consequent

Indent == <<" ", " ">>

NewLine == <<"\n">> \o Indent

\* Statements without a conditional.
PlainStatements == { <<"x", "(", ")", ";">> }

\* A function declared inside, whose own last statement is a conditional.
InnerFunction ==
    <<"function", "g", "(", ")", "{", "if", "(", "p", ")",
      "if", "(", "r", ")", "w", "(", ")", ";", "else", "return", ";", "}">>

IfElseExit == <<"if", "(", "c", ")", "return", "3", ";", "else", "throw", "e", ";">>

\* The conditionals that stand inside the consequent of the outer one.
InnerConditionals ==
    { <<"if", "(", "b", ")", "x", "(", ")", ";">>,
      <<"if", "(", "b", ")", "{", "x", "(", ")", ";", "}", "else", "{", "return", "1", ";", "}">>,
      <<"if", "(", "m", ")", "{">> \o IfElseExit \o <<"}">>,
      <<"if", "(", "!", "n", ")", "{">> \o IfElseExit \o <<"}", "else", "y", "(", ")", ";">>,
      <<"if", "(", "o", "===", "1", ")", "{">> \o IfElseExit \o <<"}", "else", "{", "}">> }

InnerStatements == PlainStatements \cup InnerConditionals \cup {InnerFunction}

\* The sequences of at most n inner statements, each on a line of its own.
RECURSIVE StatementLists(_)
StatementLists(n) ==
    IF n = 0 THEN {<<>>}
    ELSE LET shorter == StatementLists(n - 1)
         IN  shorter \cup { l \o NewLine \o s : l \in shorter \ {<<>>}, s \in InnerStatements }
                     \cup InnerStatements

\* A bare statement, or a block of at most n statements.
Consequents(n) ==
    InnerStatements \cup { <<"{">> \o l \o <<"}">> : l \in StatementLists(n) }

Alternates ==
    { <<>>,
      <<"else", "{", "return", "2", ";", "}">>,
      <<"else", "throw", "e", ";">>,
      <<"else", "y", "(", ")", ";">>,
      <<"else", "{", "{", "y", ".", "z", ";", "}", "}">>,
      <<"else", "{", "}">>,
      <<"else", "{", "y", "(", ")", ";", "return", ";", "}">>,
      <<"else", "let", "u", ";">>,
      <<"else", "if", "(", "d", ")", "return", ";">> }

Conditionals(n) ==
    { <<"if", "(", "a", ")">> \o c \o a : c \in Consequents(n), a \in Alternates }

Other == <<"z", "(", ")", ";">>

\* The places of the conditional: what stands before and after it.
\* The last statement of the body of a function, of each kind of function.
InFunctionBody ==
    { [before |-> <<"function", "f", "(", ")", "{">> \o NewLine,
       after  |-> <<"\n", "}">>],
      [before |-> <<"function", "f", "(", ")", "{">> \o NewLine \o Other \o NewLine,
       after  |-> <<"\n", "}">>],
      [before |-> <<"const", "f", "=", "(", ")", "=>", "{">> \o NewLine,
       after  |-> <<"\n", "}", ";">>],
      [before |-> <<"const", "f", "=", "function", "(", ")", "{">>,
       after  |-> <<"}", ";">>],
      [before |-> <<"class", "C", "{", "m", "(", ")", "{">> \o NewLine,
       after  |-> <<"\n", "}", "}">>] }

\* Not the last statement, or not directly in the body of a function.
Elsewhere ==
    { [before |-> <<"function", "f", "(", ")", "{">> \o NewLine,
       after  |-> NewLine \o Other \o <<"\n", "}">>],
      [before |-> <<>>, after |-> <<>>],
      [before |-> <<"{">>, after |-> <<"}">>],
      [before |-> <<"function", "f", "(", ")", "{", "for", "(", ";", ";", ")", "{">>,
       after  |-> <<"}", "}">>],
      [before |-> <<"function", "f", "(", ")", "{", "for", "(", ";", ";", ")">>,
       after  |-> <<"}">>],
      [before |-> <<"function", "f", "(", ")", "{", "{">>,
       after  |-> <<"}", "}">>],
      [before |-> <<"function", "f", "(", ")", "{", "try", "{">>,
       after  |-> <<"}", "catch", "{", "}", "}">>],
      [before |-> <<"function", "f", "(", ")", "{", "if", "(", "q", ")">>,
       after  |-> <<"}">>] }

\* Where the rule can report, the consequent has up to MaxLen statements;
\* elsewhere, one statement fewer.
Programs ==
    { pl.before \o c \o pl.after : pl \in InFunctionBody, c \in Conditionals(MaxLen) }
        \cup
    { pl.before \o c \o pl.after : pl \in Elsewhere, c \in Conditionals(MaxLen - 1) }

(***************************************************************************)
(* One run of the rule: the walk calls the IfStatement handler on every    *)
(* conditional; the host may then apply the fix of a diagnostic and lint   *)
(* the text it gets again.                                                 *)
(***************************************************************************)
NoFix == [path |-> <<>>, node |-> Null, before |-> <<>>, text |-> <<>>]

Init ==
    /\ src \in Programs
    /\ ast = Parse(src)
    /\ todo = IfPaths(ast, <<>>)
    /\ visited = {}
    /\ reports = <<>>
    /\ fix = NoFix
    /\ pass = 1
    /\ cond = <<>>
    /\ inverted = <<>>

\* A variant of the IfStatement handler that reports whatever the verdict.
IfStatement_ReportsAll ==
    /\ todo # <<>>
    /\ LET p == Head(todo)
           match == shouldReportEarlyReturn(ast, p)
       IN  /\ visited' = visited \cup {[path |-> p, match |-> match]}
           /\ reports' = Append(reports, p)
    /\ todo' = Tail(todo)
    /\ UNCHANGED <<src, ast, fix, pass, cond, inverted>>

\* create(context).IfStatement(node), for the next conditional of the walk.
IfStatement ==
    /\ todo # <<>>
    /\ LET p == Head(todo)
           match == shouldReportEarlyReturn(ast, p)
       IN  /\ visited' = visited \cup {[path |-> p, match |-> match]}
           /\ reports' = IF match THEN Append(reports, p) ELSE reports
    /\ todo' = Tail(todo)
    /\ UNCHANGED <<src, ast, fix, pass, cond, inverted>>

\* The host applies the fix of one diagnostic and lints the new text.
ApplyFix ==
    /\ todo = <<>>
    /\ pass = 1
    /\ \E i \in 1..Len(reports) :
         fix' = [path |-> reports[i], node |-> NodeAt(ast, reports[i]),
                 before |-> src, text |-> createFix(ast, reports[i], src)]
    /\ src' = replaceText(src, fix'.node, fix'.text)
    /\ ast' = Parse(src')
    /\ todo' = IfPaths(ast', <<>>)
    /\ visited' = {}
    /\ reports' = <<>>
    /\ pass' = 2
    /\ UNCHANGED <<cond, inverted>>

Next == IfStatement \/ ApplyFix

Spec == Init /\ [][Next]_vars

(***************************************************************************)
(* The fixes on their own: every conditional of a program has been         *)
(* visited, and the fix of one diagnostic is applied.                      *)
(***************************************************************************)
\* The verdicts of create(context).IfStatement on the conditionals of a walk.
Verdicts(tree, paths) ==
    { [path |-> paths[k], match |-> shouldReportEarlyReturn(tree, paths[k])]
        : k \in 1..Len(paths) }

\* The diagnostics of the walk, in the order of the visits.
Diagnostics(tree, paths) ==
    SelectSeq(paths, LAMBDA p : shouldReportEarlyReturn(tree, p))

InitFix ==
    /\ src \in Programs
    /\ ast = Parse(src)
    /\ todo = <<>>
    /\ visited = Verdicts(ast, IfPaths(ast, <<>>))
    /\ reports = Diagnostics(ast, IfPaths(ast, <<>>))
    /\ fix = NoFix
    /\ pass = 1
    /\ cond = <<>>
    /\ inverted = <<>>

NextFix == ApplyFix

SpecFix == InitFix /\ [][NextFix]_vars

(***************************************************************************)
(* invertCondition on its own: a condition is inverted, and what comes     *)
(* back is parsed and inverted again.                                      *)
(***************************************************************************)
MaxInvert == 2     \* the inversions made one after the other

Operands ==
    { <<"a">>, <<"b", ".", "c">>, <<"f", "(", ")">>, <<"1">>, <<"!", "a">>,
      <<"(", "a", "||", "b", ")">> }

Conditions ==
    { l \o <<op>> \o r :
          l \in Operands, r \in Operands,
          op \in EqualityOps \cup RelationalOps \cup LogicalOps }
    \cup { o : o \in Operands \ {<<"(", "a", "||", "b", ")">>} }
    \cup { <<"a", "||", "b">>,
           <<"!", "b", ".", "c">>, <<"!", "f", "(", ")">>, <<"!", "!", "a">>,
           <<"!", "(", "a", "||", "b", ")">>, <<"!", "(", "a", "===", "b", ")">>,
           <<"!", "(", "a", "<", "b", ")">> }

\* The condition of the text: the text is parsed as one expression.
ConditionOf(text) == ParseExpression(text, 1).node

InitInvert ==
    /\ cond \in Conditions
    /\ inverted = <<>>
    /\ src = <<>>
    /\ ast = Parse(<<>>)
    /\ todo = <<>>
    /\ visited = {}
    /\ reports = <<>>
    /\ fix = NoFix
    /\ pass = 1

\* invertCondition(condition, sourceCode), on the text returned last.
Invert ==
    /\ Len(inverted) < MaxInvert
    /\ LET text == IF inverted = <<>> THEN cond ELSE inverted[Len(inverted)]
       IN  inverted' = Append(inverted, invertCondition(ConditionOf(text), text))
    /\ UNCHANGED <<src, ast, todo, visited, reports, fix, pass, cond>>

NextInvert == Invert

SpecInvert == InitInvert /\ [][NextInvert]_vars

(***************************************************************************)
(* The vocabulary of the properties: the places and shapes of a            *)
(* conditional, read off the tree.                                         *)
(***************************************************************************)
FunctionLike ==
    {"FunctionDeclaration", "FunctionExpression", "ArrowFunctionExpression",
     "MethodDefinition"}

Prefix(p, k) == SubSeq(p, 1, k)

\* The conditional's parent is a block and that block's parent a function or method.
InFunctionBlock(p) ==
    /\ Len(p) >= 2
    /\ NodeAt(ast, Prefix(p, Len(p) - 1)).type = "BlockStatement"
    /\ NodeAt(ast, Prefix(p, Len(p) - 2)).type \in FunctionLike

ParentIsBlock(p) ==
    Len(p) >= 1 /\ NodeAt(ast, Prefix(p, Len(p) - 1)).type = "BlockStatement"

\* The conditional is the statement of its parent block that comes last.
LastOfBlock(p) ==
    ParentIsBlock(p) /\ p[Len(p)] = Len(NodeAt(ast, Prefix(p, Len(p) - 1)).kids)

Eligible(p) == InFunctionBlock(p) /\ LastOfBlock(p)

HasElse(n) == Len(n.kids) = 2

\* The consequent's top-level statement sequence; a bare consequent is a
\* sequence of one.
TopLevel(n) ==
    IF n.kids[1].type = "BlockStatement" THEN n.kids[1].kids ELSE <<n.kids[1]>>

HasTopLevelConditional(n) ==
    \E i \in 1..Len(TopLevel(n)) : TopLevel(n)[i].type = "IfStatement"

\* A statement classified as a simple exit.
RECURSIVE ExitClassified(_)
ExitClassified(s) ==
    \/ s.type \in {"ReturnStatement", "ThrowStatement", "ExpressionStatement"}
    \/ /\ s.type = "BlockStatement"
       /\ Len(s.kids) = 1
       /\ ExitClassified(s.kids[1])

HasTopLevelConditionalWithExitElse(n) ==
    \E i \in 1..Len(TopLevel(n)) :
        /\ TopLevel(n)[i].type = "IfStatement"
        /\ HasElse(TopLevel(n)[i])
        /\ ExitClassified(TopLevel(n)[i].kids[2])

\* The shape of Pattern A or of Pattern B, whatever the place.
ShapeA(n) == HasElse(n) /\ ExitClassified(n.kids[2]) /\ HasTopLevelConditional(n)

ShapeB(n) == ~HasElse(n) /\ HasTopLevelConditionalWithExitElse(n)

(***************************************************************************)
(* C1.  Pattern A: an eligible conditional with an else is matched if and  *)
(* only if the else is classified as a simple exit and the top-level       *)
(* statement sequence of the consequent (a bare consequent being a         *)
(* sequence of one) holds a conditional; a conditional found only deeper   *)
(* does not count.                                                         *)
(***************************************************************************)
C1_PatternA ==
    \A v \in visited :
        LET n == NodeAt(ast, v.path)
        IN  (Eligible(v.path) /\ HasElse(n))
                => (v.match <=> (ExitClassified(n.kids[2]) /\ HasTopLevelConditional(n)))

\* A matched conditional whose bare consequent is the nested conditional.
C1_Witness ==
    \E v \in visited :
        LET n == NodeAt(ast, v.path)
        IN  /\ Eligible(v.path) /\ HasElse(n) /\ v.match
            /\ n.kids[1].type = "IfStatement"

(***************************************************************************)
(* C2.  Pattern B: an eligible conditional without an else is matched if   *)
(* and only if a statement of the consequent's top-level sequence is a     *)
(* conditional whose own else is present and classified as a simple exit;  *)
(* a nested conditional without an else gives no match.                    *)
(***************************************************************************)
C2_PatternB ==
    \A v \in visited :
        LET n == NodeAt(ast, v.path)
        IN  (Eligible(v.path) /\ ~HasElse(n))
                => (v.match <=> HasTopLevelConditionalWithExitElse(n))

\* function f(){ if(a){ if(b){ x(); } } }: visited, and not matched.
C2_Witness ==
    \E v \in visited :
        LET n == NodeAt(ast, v.path)
        IN  /\ Eligible(v.path) /\ ~HasElse(n) /\ ~v.match
            /\ \E i \in 1..Len(TopLevel(n)) :
                   TopLevel(n)[i].type = "IfStatement" /\ ~HasElse(TopLevel(n)[i])

(***************************************************************************)
(* C3.  Position: a conditional that is not the last statement of its      *)
(* parent block is never matched, whatever its shape.                      *)
(***************************************************************************)
C3_Position ==
    \A v \in visited :
        (ParentIsBlock(v.path) /\ ~LastOfBlock(v.path)) => ~v.match

\* A conditional of a matching shape in a function's body, followed by a statement.
C3_Witness ==
    \E v \in visited :
        LET n == NodeAt(ast, v.path)
        IN  /\ InFunctionBlock(v.path) /\ ~LastOfBlock(v.path)
            /\ (ShapeA(n) \/ ShapeB(n))
            /\ ~v.match

(***************************************************************************)
(* C4.  Scope: a conditional is never matched unless its parent is a block *)
(* and that block's parent is a function-like or method-like node.         *)
(***************************************************************************)
C4_Scope == \A v \in visited : v.match => InFunctionBlock(v.path)

\* A conditional of a matching shape, last in the block of a loop's body.
C4_Witness ==
    \E v \in visited :
        LET n == NodeAt(ast, v.path)
        IN  /\ LastOfBlock(v.path)
            /\ NodeAt(ast, Prefix(v.path, Len(v.path) - 2)).type = "ForStatement"
            /\ (ShapeA(n) \/ ShapeB(n))
            /\ ~v.match

(***************************************************************************)
(* C5.  No false positive on flat code: a conditional whose consequent has *)
(* no conditional in its top-level statement sequence is never matched,    *)
(* with no else, with an exit-classified else or with any other else.      *)
(***************************************************************************)
C5_Flat ==
    \A v \in visited : ~HasTopLevelConditional(NodeAt(ast, v.path)) => ~v.match

\* An eligible conditional with an exit-classified else and a flat consequent.
C5_Witness ==
    \E v \in visited :
        LET n == NodeAt(ast, v.path)
        IN  /\ Eligible(v.path) /\ HasElse(n) /\ ExitClassified(n.kids[2])
            /\ ~HasTopLevelConditional(n)
            /\ ~v.match

(***************************************************************************)
(* C6.  Exit classification: isSimpleExit is true exactly of a return, a   *)
(* throw, an expression statement and a block of exactly one statement     *)
(* that is a simple exit; it is false of an absent else, an empty block, a *)
(* block of two or more statements and a conditional, and a conditional    *)
(* with such an else is never matched by Pattern A.                        *)
(***************************************************************************)
NotAnExit(s) ==
    \/ s = Null
    \/ s.type = "BlockStatement" /\ Len(s.kids) # 1
    \/ s.type = "IfStatement"

C6_ExitClassification ==
    /\ LET nodes == <<Null>> \o NodesUnder(ast)
       IN  \A k \in 1..Len(nodes) :
               /\ isSimpleExit(nodes[k]) <=> ExitClassified(nodes[k])
               /\ NotAnExit(nodes[k]) => ~isSimpleExit(nodes[k])
    /\ \A v \in visited :
           LET n == NodeAt(ast, v.path)
           IN  (HasElse(n) /\ NotAnExit(n.kids[2])) => ~v.match

\* An eligible conditional over a nested conditional, whose else is a block
\* of two statements: visited, and not matched.
C6_Witness ==
    \E v \in visited :
        LET n == NodeAt(ast, v.path)
        IN  /\ Eligible(v.path) /\ HasElse(n) /\ HasTopLevelConditional(n)
            /\ n.kids[2].type = "BlockStatement" /\ Len(n.kids[2].kids) = 2
            /\ ~v.match

(***************************************************************************)
(* The vocabulary of the properties of the fix: the lines of a text, and   *)
(* what a guard clause is made of.                                         *)
(***************************************************************************)
\* The lines of a text: what stands between its line breaks.
RECURSIVE LinesFrom(_, _, _)
LinesFrom(text, i, line) ==
    IF i > Len(text) THEN <<line>>
    ELSE IF text[i] = "\n" THEN <<line>> \o LinesFrom(text, i + 1, <<>>)
    ELSE LinesFrom(text, i + 1, Append(line, text[i]))

Lines(text) == IF text = <<>> THEN <<>> ELSE LinesFrom(text, 1, <<>>)

\* A line without its leading spaces and tabs.
RECURSIVE Unindented(_)
Unindented(line) ==
    IF line # <<>> /\ Head(line) \in {" ", "\t"} THEN Unindented(Tail(line)) ELSE line

UnindentedLines(text) ==
    LET lines == Lines(text) IN [i \in 1..Len(lines) |-> Unindented(lines[i])]

\* The text of a node of the tree the fix was computed on.
TextBefore(n) == SubSeq(fix.before, n.start + 1, n.end)

\* A block of one statement, unwrapped down to that statement.
RECURSIVE Unwrapped(_)
Unwrapped(s) ==
    IF s.type = "BlockStatement" /\ Len(s.kids) = 1 THEN Unwrapped(s.kids[1]) ELSE s

\* The exit text the properties expect for an exit-classified else.
ExpectedExit(alt) ==
    LET u == Unwrapped(alt)
    IN  IF u.type \in {"ReturnStatement", "ThrowStatement"}
        THEN TextBefore(u)
        ELSE <<"return">> \o TextBefore(u.expr) \o <<";">>

\* The guard clause `if (<inverted condition>) <exit>` of conditional n.
GuardOpening(n) == <<"if", "(">> \o invertCondition(n.expr, fix.before) \o <<")">>

StartsWith(line, head) == Len(line) >= Len(head) /\ SubSeq(line, 1, Len(head)) = head

IsPath(p, q) == Len(p) <= Len(q) /\ SubSeq(q, 1, Len(p)) = p

\* The block that held the conditional the fix replaced.
FixedBlock == Prefix(fix.path, Len(fix.path) - 1)

\* A conditional of the rewritten body that is not inside a function declared in it.
OfTheFunctionItself(p) ==
    /\ IsPath(FixedBlock, p)
    /\ \A k \in (Len(FixedBlock) + 1)..(Len(p) - 1) :
           NodeAt(ast, Prefix(p, k)).type \notin FunctionLike

(***************************************************************************)
(* C7, as stated.  After a matched conditional is replaced by the          *)
(* Rewriter's output, no conditional of the rewritten function body is     *)
(* matched when the Detector is run again.                                 *)
(***************************************************************************)
C7_NoMatchInRewrittenBody ==
    pass = 2 => \A v \in visited : IsPath(FixedBlock, v.path) => ~v.match

(***************************************************************************)
(* C7, amended.  After a matched conditional is replaced by the Rewriter's *)
(* output, no conditional of the rewritten function body that is not       *)
(* inside a function nested in that body is matched when the Detector is   *)
(* run again.                                                              *)
(***************************************************************************)
C7_NoMatchInRewrittenFunction ==
    pass = 2 => \A v \in visited : OfTheFunctionItself(v.path) => ~v.match

\* The walk of the rewritten text is over; it visited two guards of the function.
C7_Witness ==
    /\ pass = 2
    /\ todo = <<>>
    /\ Cardinality({ v \in visited : OfTheFunctionItself(v.path) /\ ~v.match }) >= 2

(***************************************************************************)
(* C9.  Exit conversion: the guard clause built from an exit-classified    *)
(* else ends in that else's return or throw statement, copied as it is     *)
(* once the blocks of one statement are unwrapped, or in `return           *)
(* <expression>;` around the expression of its expression statement; no    *)
(* other exit text is produced.                                            *)
(***************************************************************************)
C9_ExitConversion ==
    pass = 2 =>
        LET lines == UnindentedLines(fix.text)
        IN  /\ (HasElse(fix.node) /\ ExitClassified(fix.node.kids[2]))
                   => lines[1] = GuardOpening(fix.node) \o ExpectedExit(fix.node.kids[2])
            /\ \A p \in { IfPaths(fix.node, <<>>)[k] :
                           k \in 1..Len(IfPaths(fix.node, <<>>)) } :
                   LET n == NodeAt(fix.node, p)
                       guard == GuardOpening(n)
                   IN  (HasElse(n) /\ ExitClassified(n.kids[2]))
                           => \A i \in 1..Len(lines) :
                                  StartsWith(lines[i], guard)
                                      => lines[i] = guard \o ExpectedExit(n.kids[2])

\* A fix whose first guard is built from an expression statement inside two blocks.
C9_Witness ==
    /\ pass = 2
    /\ HasElse(fix.node)
    /\ fix.node.kids[2].type = "BlockStatement"
    /\ Unwrapped(fix.node.kids[2]).type = "ExpressionStatement"

(***************************************************************************)
(* C10.  Emission order: for a chain of nested conditionals that each have *)
(* an exit-classified else, the Rewriter emits the guard of a conditional  *)
(* before everything that comes from its consequent, outermost first, and  *)
(* the statements of a consequent in their order; for                      *)
(* if(a){ if(b){ x(); } else { return 1; } } else { return 2; }            *)
(* the output is `if (!a) return 2;`, `if (!b) return 1;`, `x();`.         *)
(***************************************************************************)
\* Every conditional of the chain has an exit-classified else.
RECURSIVE ChainOfExits(_)
ChainOfExits(n) ==
    /\ HasElse(n)
    /\ ExitClassified(n.kids[2])
    /\ \A i \in 1..Len(TopLevel(n)) :
           TopLevel(n)[i].type = "IfStatement" => ChainOfExits(TopLevel(n)[i])

\* The lines the chain is to become: the guard, then the consequent in order.
RECURSIVE ChainLines(_)
RECURSIVE ChainLinesOf(_, _)
ChainLinesOf(stmts, i) ==
    IF i > Len(stmts) THEN <<>>
    ELSE (IF stmts[i].type = "IfStatement"
          THEN ChainLines(stmts[i])
          ELSE <<TextBefore(stmts[i])>>) \o ChainLinesOf(stmts, i + 1)

ChainLines(n) ==
    <<GuardOpening(n) \o ExpectedExit(n.kids[2])>> \o ChainLinesOf(TopLevel(n), 1)

ScenarioOne ==
    <<"if", "(", "a", ")", "{", "if", "(", "b", ")", "{", "x", "(", ")", ";", "}",
      "else", "{", "return", "1", ";", "}", "}", "else", "{", "return", "2", ";", "}">>

ScenarioOneFixed ==
    << <<"if", "(", "!", "a", ")", "return", "2", ";">>,
       <<"if", "(", "!", "b", ")", "return", "1", ";">>,
       <<"x", "(", ")", ";">> >>

C10_EmissionOrder ==
    pass = 2 =>
        /\ ChainOfExits(fix.node) => UnindentedLines(fix.text) = ChainLines(fix.node)
        /\ TextBefore(fix.node) = ScenarioOne
               => UnindentedLines(fix.text) = ScenarioOneFixed

\* The fix of scenario 1 has been applied.
C10_Witness == pass = 2 /\ TextBefore(fix.node) = ScenarioOne

(***************************************************************************)
(* C8.  Inversion: invertCondition maps a comparison to the comparison of  *)
(* the same two operands with the listed inverse operator, !x to x (in     *)
(* parentheses unless x is an identifier, a member access or a call), an   *)
(* identifier, member access or call x to !x and any other expression x to *)
(* !(x); inverting a comparison twice gives back its operator.             *)
(***************************************************************************)
ListedInverse ==
    [op \in {"===", "!==", "==", "!=", "<", "<=", ">", ">="} |->
        CASE op = "===" -> "!=="
          [] op = "!==" -> "==="
          [] op = "=="  -> "!="
          [] op = "!="  -> "=="
          [] op = "<"   -> ">="
          [] op = "<="  -> ">"
          [] op = ">"   -> "<="
          [] op = ">="  -> "<"]

IsComparison(c) == c.type = "BinaryExpression" /\ c.operator \in DOMAIN ListedInverse

IsSimple(c) == c.type \in {"Identifier", "MemberExpression", "CallExpression"}

TextOf(text, e) == SubSeq(text, e.start + 1, e.end)

\* The k-th inversion: from the text it was given to the text it returned.
InversionIsListed(given, returned) ==
    LET c == ConditionOf(given)
        r == ConditionOf(returned)
    IN  IF IsComparison(c)
        THEN /\ r.type = "BinaryExpression"
             /\ r.operator = ListedInverse[c.operator]
             /\ TextOf(returned, r.args[1]) = TextOf(given, c.args[1])
             /\ TextOf(returned, r.args[2]) = TextOf(given, c.args[2])
        ELSE IF c.type = "UnaryExpression" /\ c.operator = "!"
        THEN returned = IF IsSimple(c.args[1])
                        THEN TextOf(given, c.args[1])
                        ELSE <<"(">> \o TextOf(given, c.args[1]) \o <<")">>
        ELSE IF IsSimple(c)
        THEN returned = <<"!">> \o TextOf(given, c)
        ELSE returned = <<"!", "(">> \o TextOf(given, c) \o <<")">>

Given(k) == IF k = 1 THEN cond ELSE inverted[k - 1]

C8_Inversion ==
    /\ \A k \in 1..Len(inverted) : InversionIsListed(Given(k), inverted[k])
    /\ (Len(inverted) >= 2 /\ IsComparison(ConditionOf(cond)))
           => /\ IsComparison(ConditionOf(inverted[2]))
              /\ ConditionOf(inverted[2]).operator = ConditionOf(cond).operator

(***************************************************************************)
(* C11.  Reporting: during a walk there is exactly one diagnostic for each *)
(* visited conditional the Detector matched and none for any other, and    *)
(* the fix that is applied was computed by the Rewriter on a conditional   *)
(* the Detector matched in that walk.                                      *)
(***************************************************************************)
DiagnosticsOf(p) == Cardinality({ i \in 1..Len(reports) : reports[i] = p })

OneDiagnosticPerMatch ==
    /\ \A v \in visited : DiagnosticsOf(v.path) = IF v.match THEN 1 ELSE 0
    /\ \A i \in 1..Len(reports) : \E v \in visited : v.path = reports[i]

FixOfAMatch ==
    (pass = 1 /\ pass' = 2)
        => \E v \in visited :
               /\ v.match
               /\ fix'.path = v.path
               /\ fix'.node = NodeAt(ast, v.path)
               /\ fix'.before = src

C11_Reporting == []OneDiagnosticPerMatch /\ [][FixOfAMatch]_vars

\* A walk is over with two diagnostics and a conditional that got none.
C11_Witness ==
    /\ pass = 1
    /\ todo = <<>>
    /\ Len(reports) = 2
    /\ \E v \in visited : ~v.match

(***************************************************************************)
(* C12.  Single diagnostic per nest: when a conditional is matched, no     *)
(* conditional nested in its consequent or its else with no function in    *)
(* between is matched, and at most one conditional of a function's body    *)
(* block is matched; so a matched conditional and all that is nested under *)
(* it within the same function yield exactly one diagnostic.               *)
(***************************************************************************)
\* q is nested under p, and no node between them is a function or a method.
NestedInSameFunction(p, q) ==
    /\ Len(p) < Len(q)
    /\ IsPath(p, q)
    /\ \A k \in (Len(p) + 1)..(Len(q) - 1) :
           NodeAt(ast, Prefix(q, k)).type \notin FunctionLike

SameBlock(p, q) == Len(p) = Len(q) /\ Prefix(p, Len(p) - 1) = Prefix(q, Len(q) - 1)

Fixed == pass = 2

\* What the Rewriter did for the fix: its calls and what they pushed.
StepsOfFix ==
    flattenTrace(fix.node, fix.before, getIndentation(fix.node, fix.before), Null)

CallsOfFix == SelectSeq(StepsOfFix, LAMBDA e : e.kind = "call")

PushedOfFix == SelectSeq(StepsOfFix, LAMBDA e : e.kind # "call")

\* C13: in the rewriting of a matched conditional no call of the Rewriter,
\* the top-level one or a recursive one, has its cursor on a conditional
\* whose else is present and is not exit-classified (branch 3).
C13_BranchThreeUnreached ==
    Fixed => \A k \in 1..Len(CallsOfFix) : CallsOfFix[k].branch # "3"

\* C14: in the rewriting of a matched conditional no call of the Rewriter,
\* the top-level one or a recursive one, has its cursor on a conditional
\* that has no else and whose consequent holds no conditional with an
\* exit-classified else (branch 2c); a conditional without else that the
\* Detector matches is one for which the Rewriter's search finds such a
\* nested conditional.
C14_BranchTwoCUnreached ==
    /\ Fixed => \A k \in 1..Len(CallsOfFix) : CallsOfFix[k].branch # "2c"
    /\ ~Fixed =>
         \A v \in visited :
            (v.match /\ ~HasElse(NodeAt(ast, v.path)))
                => /\ ShapeB(NodeAt(ast, v.path))
                   /\ flattenBranch(NodeAt(ast, v.path)) = "2b"

\* A fix whose top-level call and one recursive call are on a conditional
\* without else.
C14_Witness ==
    /\ Fixed
    /\ CallsOfFix[1].branch = "2b"
    /\ \E k \in 2..Len(CallsOfFix) : CallsOfFix[k].branch = "2b"

\* The indent of the conditional the fix replaced.
IndentOfFix == getIndentation(fix.node, fix.before)

\* The call at step k, on a conditional without else, first pushes the guard
\* `if (<inverted condition>) return;`.
GuardThenReturn(k) ==
    /\ k < Len(StepsOfFix)
    /\ StepsOfFix[k + 1].kind = "guard"
    /\ StepsOfFix[k + 1].text =
          StepsOfFix[k].indent \o GuardOpening(StepsOfFix[k].node) \o <<"return", ";">>

\* A statement of the consequent is handled alike by the two loops: the same
\* choice between a recursive call and a verbatim copy, and the same text.
HandledAlike(stmt, current) ==
    /\ TraceStatementNoElse(stmt, fix.before, IndentOfFix, current)
          = TraceStatementAfterExit(stmt, fix.before, IndentOfFix, current)
    /\ FlattenStatementNoElse(stmt, fix.before, IndentOfFix)
          = FlattenStatementAfterExit(stmt, fix.before, IndentOfFix)

GuardOfEveryNoElseCall ==
    Fixed => \A k \in 1..Len(StepsOfFix) :
                (StepsOfFix[k].kind = "call" /\ StepsOfFix[k].branch = "2b")
                    => GuardThenReturn(k)

\* C15: a call on a conditional without else first emits the guard
\* `if (<inverted condition>) return;` and then handles every statement of
\* the consequent by the rule of the exit-else case: the same choice between
\* recursive rewrite and verbatim re-emission, and the same text.
C15_SameRule ==
    /\ GuardOfEveryNoElseCall
    /\ Fixed => \A k \in 1..Len(CallsOfFix) :
                   CallsOfFix[k].branch = "2b"
                       => \A i \in 1..Len(TopLevel(CallsOfFix[k].node)) :
                             HandledAlike(TopLevel(CallsOfFix[k].node)[i], CallsOfFix[k].node)

(***************************************************************************)
(* Indentation.                                                            *)
(***************************************************************************)
\* What stands on the line of an offset, before the offset.
LineUpTo(text, offset) ==
    IF offset = 0 THEN <<>>
    ELSE Lines(SubSeq(text, 1, offset))[Len(Lines(SubSeq(text, 1, offset)))]

\* The leading spaces and tabs of a line.
LeadingOf(line) == SubSeq(line, 1, Len(line) - Len(Unindented(line)))

\* The leading spaces and tabs of the line the replaced conditional starts on.
IndentOfLine == LeadingOf(LineUpTo(fix.before, fix.node.start))

\* A string begins with exactly the indent: what follows it is no blank.
BeginsWithExactly(string, indent) ==
    /\ StartsWith(string, indent)
    /\ Len(string) > Len(indent)
    /\ string[Len(indent) + 1] \notin {" ", "\t"}

\* C16: every guard clause and every re-emitted statement of a fix begins
\* with exactly the leading spaces and tabs of the line the top-level
\* conditional starts on, every call of the Rewriter, at whatever depth,
\* is given that same indent, and the replacement text is these strings
\* joined by line breaks.
C16_Indentation ==
    Fixed =>
        /\ \A k \in 1..Len(CallsOfFix) : CallsOfFix[k].indent = IndentOfLine
        /\ \A k \in 1..Len(PushedOfFix) :
              PushedOfFix[k].kind \in {"guard", "statement"}
                  => BeginsWithExactly(PushedOfFix[k].text, IndentOfLine)
        /\ fix.text = Join([k \in 1..Len(PushedOfFix) |-> PushedOfFix[k].text])

\* A fix of an indented conditional with a recursive call made by a
\* recursive call, and a statement re-emitted.
C16_Witness ==
    /\ Fixed
    /\ IndentOfLine # <<>>
    /\ \E k \in 1..Len(CallsOfFix) :
          CallsOfFix[k].caller \notin {Null, fix.node}
    /\ \E k \in 1..Len(PushedOfFix) : PushedOfFix[k].kind = "statement"

(***************************************************************************)
(* Totality and termination, on every conditional of the tree.             *)
(***************************************************************************)
\* The Rewriter's steps when run on the conditional at path p.
StepsOn(p) == flattenTrace(NodeAt(ast, p), src, getIndentation(NodeAt(ast, p), src), Null)

CallsOn(p) == SelectSeq(StepsOn(p), LAMBDA e : e.kind = "call")

\* A node lies inside another one, and is not that one.
StrictlyInside(n, outer) ==
    /\ outer.start <= n.start
    /\ n.end <= outer.end
    /\ n # outer
    /\ \E k \in 2..Len(NodesUnder(outer)) : NodesUnder(outer)[k] = n

\* isSimpleExit gives an answer on every statement of a list.
ExitAnsweredOn(stmts) == \A k \in 1..Len(stmts) : isSimpleExit(stmts[k]) \in BOOLEAN

\* C17: on every conditional of the tree, matched or not, the Detector, the
\* exit classification and the Rewriter give a result; every call of the
\* Rewriter runs the body of its cursor loop exactly once; every recursive
\* call is on a conditional strictly inside the one whose loop makes it, so
\* that there are no more calls than conditionals under the first one.
C17_Totality ==
    ~Fixed =>
        /\ isSimpleExit(Null) = FALSE
        /\ \A i \in 1..Len(IfPaths(ast, <<>>)) :
              LET p == IfPaths(ast, <<>>)[i]
                  calls == CallsOn(p)
              IN  /\ shouldReportEarlyReturn(ast, p) \in BOOLEAN
                  /\ isSimpleExit(Alternate(NodeAt(ast, p))) \in BOOLEAN
                  /\ ExitAnsweredOn(getBlockStatements(Consequent(NodeAt(ast, p))))
                  /\ Len(flattenIfElseChain(NodeAt(ast, p), src,
                                            getIndentation(NodeAt(ast, p), src))) >= 0
                  /\ calls[1].node = NodeAt(ast, p)
                  /\ Len(calls) <= Len(IfPaths(NodeAt(ast, p), <<>>))
                  /\ \A k \in 1..Len(calls) :
                        /\ LoopTurns(calls[k].node, 3) = 1
                        /\ k > 1 => /\ calls[k].node.type = "IfStatement"
                                    /\ StrictlyInside(calls[k].node, calls[k].caller)

\* A tree with a conditional the Detector does not match and whose else is
\* no simple exit, and a conditional on which the Rewriter calls itself from
\* a call it made itself.
C17_Witness ==
    /\ ~Fixed
    /\ \E i \in 1..Len(IfPaths(ast, <<>>)) :
          /\ ~shouldReportEarlyReturn(ast, IfPaths(ast, <<>>)[i])
          /\ CallsOn(IfPaths(ast, <<>>)[i])[1].branch = "3"
    /\ \E i \in 1..Len(IfPaths(ast, <<>>)) :
          \E k \in 1..Len(CallsOn(IfPaths(ast, <<>>)[i])) :
              CallsOn(IfPaths(ast, <<>>)[i])[k].caller
                  \notin {Null, NodeAt(ast, IfPaths(ast, <<>>)[i])}

\* What a statement of the consequent of a call's conditional contributes
\* to the parts of that call.
ContributionOf(stmt, call) ==
    IF call.branch = "1"
    THEN FlattenStatementAfterExit(stmt, fix.before, call.indent)
    ELSE FlattenStatementNoElse(stmt, fix.before, call.indent)

\* C18: in the rewriting of a matched conditional every statement of every
\* consequent that is flattened contributes to the output, as its own text
\* unchanged after the indent or as a recursive rewrite that is not empty;
\* no call hands the empty text back to the loop that made it.
C18_NoStatementLost ==
    Fixed =>
        /\ \A k \in 1..Len(CallsOfFix) :
              CallsOfFix[k].branch \in {"1", "2b"}
                  => \A i \in 1..Len(TopLevel(CallsOfFix[k].node)) :
                        ContributionOf(TopLevel(CallsOfFix[k].node)[i], CallsOfFix[k]) # <<>>
        /\ \A k \in 1..Len(PushedOfFix) : PushedOfFix[k].kind # "nothing"

(***************************************************************************)
(* The place of the replacement in the new text.                           *)
(***************************************************************************)
\* The offset of the first token from an offset on that is no space or tab.
RECURSIVE FirstNonBlank(_, _)
FirstNonBlank(text, offset) ==
    IF offset < Len(text) /\ text[offset + 1] \in {" ", "\t"}
    THEN FirstNonBlank(text, offset + 1)
    ELSE offset

\* The column of an offset: what stands before it on its line.
ColumnOf(text, offset) == Len(LineUpTo(text, offset))

\* C20: once the fix has replaced the span of the conditional, the first
\* guard clause starts at the column the conditional started at: the blanks
\* that stood before the conditional on its line are not there twice.
C20_ColumnKept ==
    Fixed =>
        /\ src[FirstNonBlank(src, fix.node.start) + 1] = "if"
        /\ ColumnOf(src, FirstNonBlank(src, fix.node.start))
              = ColumnOf(fix.before, fix.node.start)

(***************************************************************************)
(* What a list of statements does, under a truth assignment to the names   *)
(* its conditions test: the statements it runs, in order, and how it ends. *)
(***************************************************************************)
\* The names the conditions of the generated conditionals test.
Tested == {"a", "b", "m", "n", "o", "c", "d", "p", "q", "r"}

\* The truth assignments to the names that occur in the replaced conditional.
TruthAssignments ==
    [{ fix.before[i] : i \in (fix.node.start + 1)..fix.node.end } \cap Tested -> BOOLEAN]

\* The truth of a condition: a name, a negation, or a comparison of a name
\* for equality, which an assignment makes true and the inequality false.
RECURSIVE Holds(_, _, _)
Holds(e, text, truth) ==
    CASE e.type = "UnaryExpression" /\ e.operator = "!" -> ~Holds(e.args[1], text, truth)
      [] e.type = "BinaryExpression" /\ e.operator \in {"===", "=="} ->
            truth[text[e.args[1].start + 1]]
      [] e.type = "BinaryExpression" /\ e.operator \in {"!==", "!="} ->
            ~truth[text[e.args[1].start + 1]]
      [] OTHER -> truth[text[e.start + 1]]

\* The text of a statement, blanks and line breaks left out.
Written(s, text) ==
    SelectSeq(SubSeq(text, s.start + 1, s.end), LAMBDA t : t \notin WhiteSpace)

Ran(statements) == [ran |-> statements, over |-> FALSE, end |-> <<>>]

\* The end of the function: by a throw, by a return of a value, or by
\* completion, of which a bare `return;` is a case.
Ended(s, text) ==
    [ran |-> <<>>, over |-> TRUE,
     end |-> IF Written(s, text) = <<"return", ";">> THEN <<>> ELSE Written(s, text)]

RECURSIVE Run(_, _, _)
RECURSIVE RunList(_, _, _, _)

Run(s, text, truth) ==
    CASE s.type = "IfStatement" ->
            IF Holds(s.expr, text, truth) THEN Run(s.kids[1], text, truth)
            ELSE IF Len(s.kids) = 2 THEN Run(s.kids[2], text, truth)
            ELSE Ran(<<>>)
      [] s.type = "BlockStatement" -> RunList(s.kids, 1, text, truth)
      [] s.type \in {"ReturnStatement", "ThrowStatement"} -> Ended(s, text)
      [] OTHER -> Ran(<<Written(s, text)>>)

RunList(stmts, i, text, truth) ==
    IF i > Len(stmts) THEN Ran(<<>>)
    ELSE LET first == Run(stmts[i], text, truth)
         IN  IF first.over THEN first
             ELSE LET rest == RunList(stmts, i + 1, text, truth)
                  IN  [rest EXCEPT !.ran = first.ran \o rest.ran]

\* The statements that stand where the replaced conditional stood.
Replacement ==
    SubSeq(NodeAt(ast, FixedBlock).kids, fix.path[Len(fix.path)],
           Len(NodeAt(ast, FixedBlock).kids))

\* Every exit-classified else under the replaced conditional is a return or
\* a throw statement.
ExitsAreReturnOrThrow ==
    \A k \in 1..Len(NodesUnder(fix.node)) :
        LET n == NodesUnder(fix.node)[k]
        IN  (n.type = "IfStatement" /\ HasElse(n) /\ ExitClassified(n.kids[2]))
                => Unwrapped(n.kids[2]).type \in {"ReturnStatement", "ThrowStatement"}

SameRun(one, other) == one.ran = other.ran /\ one.end = other.end

\* C19: when every exit-classified else of the matched conditional is a
\* return or a throw, then under every truth assignment to the conditions
\* the replacement runs the same statements in the same order as the
\* conditional did and ends the same way: the same return or throw, or
\* completion, a bare `return;` counting as completion.
C19_ControlFlowPreserved ==
    (Fixed /\ ExitsAreReturnOrThrow)
        => \A truth \in TruthAssignments :
              SameRun(Run(fix.node, fix.before, truth),
                      RunList(Replacement, 1, src, truth))

====
